---------------------------- MODULE Spec2Model ----------------------------
(***************************************************************************)
(* Model of src/worker.js: the ZIP upload pipeline (handleZipUpload,       *)
(* extractZip, findEntryPoint), the store it writes to (the R2 bucket      *)
(* WEBSITES_BUCKET), the readers (serveHostedSite, listSites) and the      *)
(* HTML rewriter (fixRelativePaths).                                       *)
(*                                                                         *)
(* JavaScript strings are modelled as sequences of one-character strings,  *)
(* so that toLowerCase, endsWith, includes, split('.').pop() and the       *)
(* regular expressions of fixRelativePaths are computed character by       *)
(* character.                                                              *)
(***************************************************************************)
EXTENDS Integers, Sequences, FiniteSets, TLC

-----------------------------------------------------------------------------
(* String helpers (String.prototype methods used by worker.js) *)

Min(S) == CHOOSE x \in S : \A y \in S : x <= y

Max(S) == CHOOSE x \in S : \A y \in S : x >= y

UpperChars == <<"A","B","C","D","E","F","G","H","I","J","K","L","M","N","O","P","Q","R","S","T","U","V","W","X","Y","Z">>

LowerChars == <<"a","b","c","d","e","f","g","h","i","j","k","l","m","n","o","p","q","r","s","t","u","v","w","x","y","z">>

ToLowerChar(c) ==
  IF \E i \in 1..Len(UpperChars) : UpperChars[i] = c
  THEN LowerChars[CHOOSE i \in 1..Len(UpperChars) : UpperChars[i] = c]
  ELSE c

toLowerCase(s) == [i \in 1..Len(s) |-> ToLowerChar(s[i])]

\* the literal lit occurs in s at position i (1-based)
StartsAt(s, i, lit) ==
  /\ i >= 1
  /\ i + Len(lit) - 1 <= Len(s)
  /\ \A k \in 1..Len(lit) : s[i + k - 1] = lit[k]

startsWith(s, lit) == StartsAt(s, 1, lit)

endsWith(s, lit) == StartsAt(s, Len(s) - Len(lit) + 1, lit)

includes(s, lit) == \E i \in 1..(Len(s) - Len(lit) + 1) : StartsAt(s, i, lit)

\* Array.prototype.join('/') on a sequence of strings
RECURSIVE join(_)
join(parts) ==
  IF Len(parts) = 0 THEN <<>>
  ELSE IF Len(parts) = 1 THEN parts[1]
  ELSE parts[1] \o <<"/">> \o join(Tail(parts))

\* String.prototype.split on a one-character separator
RECURSIVE split(_, _)
split(s, sep) ==
  LET at == {i \in 1..Len(s) : s[i] = sep}
  IN  IF at = {} THEN <<s>>
      ELSE <<SubSeq(s, 1, Min(at) - 1)>> \o split(SubSeq(s, Min(at) + 1, Len(s)), sep)

IsNonEmpty(p) == Len(p) > 0

\* the printable ASCII characters in code order (but the backquote): the
\* order of the keys that bucket.list returns
AsciiOrder ==
  <<" ","!","\"","#","$","%","&","'","(",")","*","+",",","-",".","/","0","1","2","3","4","5","6","7","8","9",":",";","<","=",">","?","@","A","B","C","D","E","F","G","H","I","J","K","L","M","N","O","P","Q","R","S","T","U","V","W","X","Y","Z","[","\\","]","^","_","a","b","c","d","e","f","g","h","i","j","k","l","m","n","o","p","q","r","s","t","u","v","w","x","y","z","{","|","}","~">>

CharCode(c) == CHOOSE i \in 1..Len(AsciiOrder) : AsciiOrder[i] = c

RECURSIVE LexLess(_, _)
LexLess(a, b) ==
  IF Len(b) = 0 THEN FALSE
  ELSE IF Len(a) = 0 THEN TRUE
  ELSE IF a[1] = b[1] THEN LexLess(Tail(a), Tail(b))
  ELSE CharCode(a[1]) < CharCode(b[1])

RECURSIVE SortKeys(_)
SortKeys(S) ==
  IF S = {} THEN <<>>
  ELSE LET m == CHOOSE k \in S : \A j \in S \ {k} : LexLess(k, j)
       IN  <<m>> \o SortKeys(S \ {m})

-----------------------------------------------------------------------------
(* getMimeType, worker.js 276-294 *)

mimeTypes ==
  { <<<<"h","t","m","l">>, <<"t","e","x","t","/","h","t","m","l">>>>,
    <<<<"h","t","m">>, <<"t","e","x","t","/","h","t","m","l">>>>,
    <<<<"c","s","s">>, <<"t","e","x","t","/","c","s","s">>>>,
    <<<<"j","s">>, <<"a","p","p","l","i","c","a","t","i","o","n","/","j","a","v","a","s","c","r","i","p","t">>>>,
    <<<<"j","s","o","n">>, <<"a","p","p","l","i","c","a","t","i","o","n","/","j","s","o","n">>>>,
    <<<<"p","n","g">>, <<"i","m","a","g","e","/","p","n","g">>>>,
    <<<<"j","p","g">>, <<"i","m","a","g","e","/","j","p","e","g">>>>,
    <<<<"j","p","e","g">>, <<"i","m","a","g","e","/","j","p","e","g">>>>,
    <<<<"g","i","f">>, <<"i","m","a","g","e","/","g","i","f">>>>,
    <<<<"s","v","g">>, <<"i","m","a","g","e","/","s","v","g","+","x","m","l">>>>,
    <<<<"t","x","t">>, <<"t","e","x","t","/","p","l","a","i","n">>>>,
    <<<<"p","d","f">>, <<"a","p","p","l","i","c","a","t","i","o","n","/","p","d","f">>>>,
    <<<<"z","i","p">>, <<"a","p","p","l","i","c","a","t","i","o","n","/","z","i","p">>>> }

OctetStream == <<"a","p","p","l","i","c","a","t","i","o","n","/","o","c","t","e","t","-","s","t","r","e","a","m">>

\* filename.split('.').pop(): the text after the last dot, the whole name
\* when it has no dot
LastSegment(filename) ==
  LET dots == {i \in 1..Len(filename) : filename[i] = "."}
  IN  IF dots = {} THEN filename
      ELSE SubSeq(filename, Max(dots) + 1, Len(filename))

getMimeType(filename) ==
  LET ext == toLowerCase(LastSegment(filename))
  IN  IF \E p \in mimeTypes : p[1] = ext
      THEN (CHOOSE p \in mimeTypes : p[1] = ext)[2]
      ELSE OctetStream

-----------------------------------------------------------------------------
(* findEntryPoint, worker.js 142-163 *)

entryPoints ==
  << <<"i","n","d","e","x",".","h","t","m","l">>, <<"i","n","d","e","x",".","h","t","m">>, <<"d","e","f","a","u","l","t",".","h","t","m","l">>, <<"d","e","f","a","u","l","t",".","h","t","m">>, <<"m","a","i","n",".","h","t","m","l">> >>

IsHtmlFile(f) == includes(f.type, <<"h","t","m","l">>) \/ endsWith(f.name, <<".","h","t","m","l">>)

\* files[0].name of an empty array is a TypeError
findEntryPointThrows(files) == Len(files) = 0

findEntryPoint(files) ==
  LET hits == {k \in 1..Len(entryPoints) :
                 \E i \in 1..Len(files) : toLowerCase(files[i].name) = entryPoints[k]}
      htmlFiles == SelectSeq(files, IsHtmlFile)
  IN  IF hits # {} THEN entryPoints[Min(hits)]
      ELSE IF Len(htmlFiles) > 0 THEN htmlFiles[1].name
      ELSE files[1].name

-----------------------------------------------------------------------------
(* fixRelativePaths, worker.js 221-247 *)

\* Each of the four passes is html.replace(re, `$1${basePath}$2$3`) with the
\* global regular expression re made of: group 1 = the tag literal, any run
\* of characters other than ">" (greedy), the attribute literal (href= or
\* src=) and one quote character; a negative lookahead for http:// or
\* https:// (and for # in the anchor pass); group 2 = a greedy run of
\* characters other than quotes; group 3 = one quote character.

Quotes == {"\"", "'"}

\* groups 2 and 3 from position v: the value runs to the first quote
\* character at or after v; 0 when there is none (no match)
RECURSIVE NextQuote(_, _)
NextQuote(s, v) ==
  IF v > Len(s) THEN 0
  ELSE IF s[v] \in Quotes THEN v
  ELSE NextQuote(s, v + 1)

\* a variant: the lookahead also rejects a value that starts with a slash
LookaheadOkNoRooted(s, v, hashToo) ==
  /\ ~StartsAt(s, v, <<"h","t","t","p",":","/","/">>)
  /\ ~StartsAt(s, v, <<"h","t","t","p","s",":","/","/">>)
  /\ ~StartsAt(s, v, <<"/">>)
  /\ ~(hashToo /\ v <= Len(s) /\ s[v] = "#")

\* the negative lookahead at the first character of the value
LookaheadOk(s, v, hashToo) ==
  /\ ~StartsAt(s, v, <<"h","t","t","p",":","/","/">>)
  /\ ~StartsAt(s, v, <<"h","t","t","p","s",":","/","/">>)
  /\ ~(hashToo /\ v <= Len(s) /\ s[v] = "#")

\* the positions j at which the attribute literal can start for a match that starts at i:
\* TAG at i, no ">" between the tag and j, the lookahead passes and the value
\* is closed by a quote
AttrStarts(s, i, tag, attr, hashToo) ==
  { j \in (i + Len(tag))..Len(s) :
      /\ \A k \in (i + Len(tag))..(j - 1) : s[k] # ">"
      /\ StartsAt(s, j, attr)
      /\ j + Len(attr) <= Len(s)
      /\ s[j + Len(attr)] \in Quotes
      /\ LookaheadOk(s, j + Len(attr) + 1, hashToo)
      /\ NextQuote(s, j + Len(attr) + 1) # 0 }

MatchAt(s, i, tag, attr, hashToo) ==
  StartsAt(s, i, tag) /\ AttrStarts(s, i, tag, attr, hashToo) # {}

\* [^>]* is greedy: of the positions that let the rest match, the regex
\* engine takes the rightmost
AttrStart(s, i, tag, attr, hashToo) == Max(AttrStarts(s, i, tag, attr, hashToo))

\* String.prototype.replace with a /g regex, from position pos on: the
\* leftmost match is replaced and the scan resumes after it
RECURSIVE replace(_, _, _, _, _, _)
replace(s, pos, tag, attr, hashToo, basePath) ==
  LET starts == {i \in pos..Len(s) : MatchAt(s, i, tag, attr, hashToo)}
  IN  IF starts = {} THEN SubSeq(s, pos, Len(s))
      ELSE LET i == Min(starts)
               v == AttrStart(s, i, tag, attr, hashToo) + Len(attr) + 1
               e == NextQuote(s, v)
           IN  SubSeq(s, pos, v - 1) \o basePath \o SubSeq(s, v, e)
                 \o replace(s, e + 1, tag, attr, hashToo, basePath)

fixRelativePaths(html, basePath) ==
  LET css == replace(html, 1, <<"<","l","i","n","k">>, <<"h","r","e","f","=">>, FALSE, basePath)
      js  == replace(css, 1, <<"<","s","c","r","i","p","t">>, <<"s","r","c","=">>, FALSE, basePath)
      img == replace(js, 1, <<"<","i","m","g">>, <<"s","r","c","=">>, FALSE, basePath)
  IN  replace(img, 1, <<"<","a">>, <<"h","r","e","f","=">>, TRUE, basePath)

-----------------------------------------------------------------------------
(* Bounds and input pools *)

\* longest archive (number of members) of the single-upload specification
MaxMembers == 2

\* longest archive of each upload of the two-upload specification
MaxMembersTwo == 2

\* generateSiteId, worker.js 267-274: 8 characters of a-z0-9 drawn with
\* Math.random(); two of its possible results (two calls can return the
\* same one)
IdPool == { <<"k","3","x","9","p","0","q","z">>, <<"a","1","b","2","c","3","d","4">> }

\* the siteName form field; the empty string stands for an absent field
SiteNames == { <<"m","y">>, <<>> }

\* new URL(request.url).origin
Origin == <<"h","t","t","p","s",":","/","/","h",".","d","e","v">>

\* the entries of zip.files: name, directory flag, decoded content.  JSZip
\* keeps them in an object keyed by name, so names are distinct.
MemberPool ==
  { [name |-> <<"i","n","d","e","x",".","h","t","m","l">>,  dir |-> FALSE, content |-> <<"<","a"," ","h","r","e","f","=","\"","x","\"",">">>],
    [name |-> <<"I","n","d","e","x",".","H","T","M","L">>,  dir |-> FALSE, content |-> <<"<","p",">">>],
    [name |-> <<"a","b","o","u","t",".","h","t","m","l">>,  dir |-> FALSE, content |-> <<"<","i","m","g"," ","s","r","c","=","'","i","'",">">>],
    [name |-> <<"c","o","n","f","i","g",".","j","s","o","n">>, dir |-> FALSE, content |-> <<"{","}">>],
    [name |-> <<"a",".","c","s","s">>,       dir |-> FALSE, content |-> <<"p","{","}">>],
    [name |-> <<"i","m","g","/">>,        dir |-> TRUE,  content |-> <<>>] }

MemberPoolTwo ==
  { m \in MemberPool : m.name \in { <<"i","n","d","e","x",".","h","t","m","l">>, <<"c","o","n","f","i","g",".","j","s","o","n">>, <<"i","m","g","/">> } }

\* the non-empty sequences of at most n distinct members of pool
ArchivesOf(pool, n) ==
  UNION { { z \in [1..k -> pool] : \A i, j \in 1..k : i # j => z[i].name # z[j].name }
          : k \in 1..n }

Archives == ArchivesOf(MemberPool, MaxMembers)

ArchivesTwo == ArchivesOf(MemberPoolTwo, MaxMembersTwo)

\* pathnames of requests for site id
PathnamesOf(id) ==
  { <<"/","s","/">> \o id,
    <<"/","s","/">> \o id \o <<"/">>,
    <<"/","s","/">> \o id \o <<"/","i","n","d","e","x",".","h","t","m","l">>,
    <<"/","s","/">> \o id \o <<"/","a",".","c","s","s">>,
    <<"/","s","/">> \o id \o <<"/","c","o","n","f","i","g",".","j","s","o","n">>,
    <<"/","s","/">> \o id \o <<"/","n","o","p","e">> }

\* the pathnames requested: those of one site, which an upload may or may
\* not have been given as its id
Pathnames == PathnamesOf(<<"k","3","x","9","p","0","q","z">>)

\* most elements of an input document of the rewriter
MaxElements == 2

\* an element of a document: a tag with its attributes, or (tag empty) text
Tag(tag, attrs) == [tag |-> tag, attrs |-> attrs, text |-> <<>>]

Text(text) == [tag |-> <<>>, attrs |-> <<>>, text |-> text]

Attr(name, quote, value) == [name |-> name, quote |-> quote, value |-> value]

ElementPool ==
  { Tag(<<"l","i","n","k">>, << Attr(<<"h","r","e","f">>, "\"", <<"s","t","y","l","e",".","c","s","s">>) >>),
    Tag(<<"l","i","n","k">>, << Attr(<<"r","e","l">>, "\"", <<"s","t","y","l","e","s","h","e","e","t">>), Attr(<<"h","r","e","f">>, "'", <<"s",".","c","s","s">>) >>),
    Tag(<<"s","c","r","i","p","t">>, << Attr(<<"s","r","c">>, "\"", <<"a","p","p",".","j","s">>) >>),
    Tag(<<"i","m","g">>, << Attr(<<"s","r","c">>, "\"", <<"h","t","t","p","s",":","/","/","c","/","i",".","p","n","g">>) >>),
    Tag(<<"i","m","g">>, << Attr(<<"s","r","c">>, "\"", <<"/","s","/","k","3","x","9","p","0","q","z","/","i",".","p","n","g">>) >>),
    Tag(<<"i","m","g">>, << Attr(<<"s","r","c">>, "\"", <<"a",".","p","n","g">>), Attr(<<"d","a","t","a","-","s","r","c">>, "\"", <<"b",".","p","n","g">>) >>),
    Tag(<<"a">>, << Attr(<<"h","r","e","f">>, "\"", <<"#","t","o","p">>) >>),
    Tag(<<"a">>, << Attr(<<"h","r","e","f">>, "'", <<"h","t","t","p",":","/","/","e",".","c","o","m">>) >>),
    Tag(<<"a">>, << Attr(<<"h","r","e","f">>, "\"", <<"p",".","h","t","m","l">>), Attr(<<"c","l","a","s","s">>, "\"", <<"n">>) >>),
    Tag(<<"p">>, << Attr(<<"t","i","t","l","e">>, "\"", <<"x">>) >>),
    Text(<<"h","i">>) }

Docs == UNION { [1..k -> ElementPool] : k \in 1..MaxElements }

\* `/s/${siteId}/`, worker.js 189 and 205
BasePaths == { <<"/","s","/">> \o id \o <<"/">> : id \in IdPool }

RECURSIVE RenderAttrs(_)
RenderAttrs(attrs) ==
  IF Len(attrs) = 0 THEN <<>>
  ELSE <<" ">> \o attrs[1].name \o <<"=">> \o <<attrs[1].quote>> \o attrs[1].value
         \o <<attrs[1].quote>> \o RenderAttrs(Tail(attrs))

RenderElement(el) ==
  IF Len(el.tag) = 0 THEN el.text
  ELSE <<"<">> \o el.tag \o RenderAttrs(el.attrs) \o <<">">>

\* the text of a document
RECURSIVE Render(_)
Render(d) == IF Len(d) = 0 THEN <<>> ELSE RenderElement(d[1]) \o Render(Tail(d))

\* values new Date() can take when the manifest is assembled
Times == {0, 1}

Uploads == {1, 2}

-----------------------------------------------------------------------------
(* The store: env.WEBSITES_BUCKET, a map from keys to objects *)

\* a variant: the key without the site id
r2KeyNoSite(id, filename) == <<"s","i","t","e","s","/">> \o filename

\* `sites/${siteId}/${filename}`, worker.js 122
r2Key(id, filename) == <<"s","i","t","e","s","/">> \o id \o <<"/">> \o filename

\* `sites/${siteId}/config.json`, worker.js 88
ConfigKey(id) == <<"s","i","t","e","s","/">> \o id \o <<"/","c","o","n","f","i","g",".","j","s","o","n">>

NoConfig ==
  [id |-> <<>>, name |-> <<>>, files |-> <<>>, entryPoint |-> <<>>,
   createdAt |-> 0, url |-> <<>>, directUrl |-> <<>>, set |-> FALSE]

\* the body of an object: the bytes of an archive member, or the text
\* JSON.stringify(siteConfig) (kept as the value it denotes)
Bytes(data) == [kind |-> "bytes", data |-> data, cfg |-> NoConfig]

JsonOf(cfg) == [kind |-> "json", data |-> <<>>, cfg |-> cfg]

\* bucket.put(key, body, {httpMetadata: {contentType}})
StoredObject(body, contentType) == [body |-> body, contentType |-> contentType]

Put(st, key, obj) ==
  [k \in (DOMAIN st) \cup {key} |-> IF k = key THEN obj ELSE st[k]]

EmptyStore == [k \in {} |-> StoredObject(Bytes(<<>>), <<>>)]

\* number of decimal digits of n
RECURSIVE Digits(_)
Digits(n) == IF n < 10 THEN 1 ELSE 1 + Digits(n \div 10)

\* length of the JSON string literal of s: the quotes, and a backslash
\* before each quote or backslash
JsonStringLength(s) ==
  2 + Len(s) + Cardinality({i \in 1..Len(s) : s[i] \in {"\"", "\\"}})

\* length of JSON.stringify of one element of files:
\* {"name":..,"type":..,"size":..,"path":..}
JsonFileLength(f) ==
  Len(<<"{","\"","n","a","m","e","\"",":",",","\"","t","y","p","e","\"",":",",","\"","s","i","z","e","\"",":",",","\"","p","a","t","h","\"",":","}">>)
    + JsonStringLength(f.name) + JsonStringLength(f.type)
    + Digits(f.size) + JsonStringLength(f.path)

RECURSIVE SumFileLengths(_)
SumFileLengths(fs) ==
  IF Len(fs) = 0 THEN 0 ELSE JsonFileLength(fs[1]) + SumFileLengths(Tail(fs))

\* length of toISOString(): YYYY-MM-DDTHH:mm:ss.sssZ
IsoLength == Len(<<"2","0","2","6","-","0","1","-","0","1","T","0","0",":","0","0",":","0","0",".","0","0","0","Z">>)

\* length of JSON.stringify(siteConfig), worker.js 77-89
JsonLength(cfg) ==
  Len(<<"{","\"","i","d","\"",":",",","\"","n","a","m","e","\"",":",",","\"","f","i","l","e","s","\"",":","[","]",",","\"","e","n","t","r","y","P","o","i","n","t","\"",":",",","\"","c","r","e","a","t","e","d","A","t","\"",":",",","\"","u","r","l","\"",":",",","\"","d","i","r","e","c","t","U","r","l","\"",":","}">>)
    + JsonStringLength(cfg.id) + JsonStringLength(cfg.name)
    + SumFileLengths(cfg.files)
    + (IF Len(cfg.files) > 0 THEN Len(cfg.files) - 1 ELSE 0)
    + JsonStringLength(cfg.entryPoint) + (2 + IsoLength)
    + JsonStringLength(cfg.url) + JsonStringLength(cfg.directUrl)

\* the byte length of a body (names and contents here are ASCII)
ByteLength(body) ==
  IF body.kind = "bytes" THEN Len(body.data) ELSE JsonLength(body.cfg)

-----------------------------------------------------------------------------
(* State *)

VARIABLES
  store,       \* the bucket: key -> object
  zip,         \* per upload: the entries of the uploaded archive
  form,        \* per upload: the siteName field of the form
  pc,          \* per upload: where handleZipUpload is
  siteId,      \* per upload: const siteId
  siteName,    \* per upload: const siteName
  idx,         \* per upload: the entry the loop of extractZip is at
  files,       \* per upload: const files of extractZip / extractedFiles
  siteConfig,  \* per upload: const siteConfig
  status,      \* per upload: HTTP status of the response, 0 while running
  err,         \* per upload: the error the response reports
  puts,        \* per upload: the puts issued so far, <<key, accepted>>
  rpc,         \* the reader: where serveHostedSite or listSites is
  req,         \* the reader: siteId, requestedFile and the result of the first get
  pending,     \* the reader: the config.json keys listSites has still to get
  sites,       \* the reader: const sites of listSites
  resp,        \* the reader: the response the last step returned, if any
  doc,         \* the rewriter: the elements the input document is made of
  html,        \* the rewriter: the input document, the text of doc
  basePath,    \* the rewriter: the basePath argument
  out1,        \* the rewriter: fixRelativePaths(html, basePath)
  out2,        \* the rewriter: fixRelativePaths(out1, basePath)
  rwpc         \* the rewriter: how many times it has run

uploadVars == <<zip, form, pc, siteId, siteName, idx, files, siteConfig, status, err, puts>>

readerVars == <<rpc, req, pending, sites, resp>>

rewriteVars == <<doc, html, basePath, out1, out2, rwpc>>

vars == <<store, uploadVars, readerVars, rewriteVars>>

\* no request in progress, no response returned
NoReq == [siteId |-> <<>>, file |-> <<>>, fileKey |-> <<>>]

NoResp ==
  [handler |-> "none", status |-> 0, body |-> Bytes(<<>>), contentType |-> <<>>,
   siteId |-> <<>>, file |-> <<>>, gets |-> <<>>, sites |-> <<>>]

-----------------------------------------------------------------------------
(* handleZipUpload, worker.js 45-107, and extractZip, worker.js 110-139 *)

\* the element pushed to files, worker.js 129-134
FileEntry(filename, fileContent, id) ==
  [name |-> filename,
   type |-> getMimeType(filename),
   size |-> Len(fileContent),
   path |-> r2Key(id, filename)]

\* siteConfig, worker.js 77-85
SiteConfig(id, name, extractedFiles, entryPoint, now) ==
  [id |-> id, name |-> name, files |-> extractedFiles, entryPoint |-> entryPoint,
   createdAt |-> now,
   url |-> Origin \o <<"/","s","/">> \o id,
   directUrl |-> Origin \o <<"/","s","/">> \o id \o <<"/">> \o entryPoint,
   set |-> TRUE]

\* the checks before extraction, worker.js 47-65, by kind of request
RequestKinds ==
  { "ok", "noContentType", "notMultipart", "noFile", "notZip", "tooLarge" }

\* a step of an upload: the reader stays where it is, and returns nothing
ReaderWaits ==
  /\ resp' = NoResp
  /\ UNCHANGED <<rpc, req, pending, sites, rewriteVars>>

Finish(u, st, code, e) ==
  /\ pc' = [pc EXCEPT ![u] = st]
  /\ status' = [status EXCEPT ![u] = code]
  /\ err' = [err EXCEPT ![u] = e]

\* worker.js 47-68: the content type, the form, the size limit, the ids
Validate(u) ==
  /\ pc[u] = "start"
  /\ \E kind \in RequestKinds :
       \/ /\ kind = "noContentType"   \* contentType.includes on null throws
          /\ Finish(u, "failed", 500, "TypeError")
          /\ UNCHANGED <<siteId, siteName>>
       \/ /\ kind = "notMultipart"
          /\ Finish(u, "rejected", 400, "Invalid content type")
          /\ UNCHANGED <<siteId, siteName>>
       \/ /\ kind \in {"noFile", "notZip"}
          /\ Finish(u, "rejected", 400, "Only ZIP files allowed")
          /\ UNCHANGED <<siteId, siteName>>
       \/ /\ kind = "tooLarge"
          /\ Finish(u, "rejected", 400, "File too large")
          /\ UNCHANGED <<siteId, siteName>>
       \/ /\ kind = "ok"
          /\ \E fresh \in IdPool, id \in IdPool :
               /\ siteName' = [siteName EXCEPT ![u] = IF form[u] = <<>> THEN fresh ELSE form[u]]
               /\ siteId' = [siteId EXCEPT ![u] = id]
          /\ pc' = [pc EXCEPT ![u] = "load"]
          /\ UNCHANGED <<status, err>>
  /\ UNCHANGED <<store, zip, form, idx, files, siteConfig, puts>>
  /\ ReaderWaits

\* worker.js 111-113: file.arrayBuffer() and JSZip.loadAsync, which throws
\* on bytes that are no archive
LoadZip(u) ==
  /\ pc[u] = "load"
  /\ \/ /\ pc' = [pc EXCEPT ![u] = "extract"]
        /\ idx' = [idx EXCEPT ![u] = 1]
        /\ UNCHANGED <<status, err>>
     \/ /\ Finish(u, "failed", 500, "DecodeError")
        /\ UNCHANGED idx
  /\ UNCHANGED <<store, zip, form, siteId, siteName, files, siteConfig, puts>>
  /\ ReaderWaits

\* a variant: no entry is taken for a directory
IsDirNever(zipEntry) == FALSE

\* zipEntry.dir, worker.js 117
IsDir(zipEntry) == zipEntry.dir

\* a variant: the loop ends one entry early
LoopDoneEarly(u) == idx[u] >= Len(zip[u])

\* worker.js 116: the loop over Object.entries(zip.files) has ended
LoopDone(u) == idx[u] > Len(zip[u])

\* worker.js 117: a directory entry is skipped
SkipDirectory(u) ==
  /\ pc[u] = "extract"
  /\ ~LoopDone(u)
  /\ idx[u] <= Len(zip[u])
  /\ IsDir(zip[u][idx[u]])
  /\ idx' = [idx EXCEPT ![u] = idx[u] + 1]
  /\ UNCHANGED <<store, zip, form, pc, siteId, siteName, files, siteConfig, status, err, puts>>
  /\ ReaderWaits

\* worker.js 118: zipEntry.async rejects, the error leaves extractZip and is
\* caught at worker.js 103-106
DecodeRejected(u) ==
  /\ Finish(u, "failed", 500, "DecodeError")
  /\ UNCHANGED <<store, idx, files, puts>>

\* a variant: the rejected put is caught inside the loop, which goes on
PutRejectedSwallowed(u) ==
  /\ puts' = [puts EXCEPT ![u] = Append(puts[u], <<r2Key(siteId[u], zip[u][idx[u]].name), FALSE>>)]
  /\ idx' = [idx EXCEPT ![u] = idx[u] + 1]
  /\ UNCHANGED <<store, files, pc, status, err>>

\* worker.js 123-127: the put rejects, the error leaves extractZip and is
\* caught at worker.js 103-106
PutRejected(u) ==
  /\ Finish(u, "failed", 500, "StoreWriteError")
  /\ puts' = [puts EXCEPT ![u] = Append(puts[u], <<r2Key(siteId[u], zip[u][idx[u]].name), FALSE>>)]
  /\ UNCHANGED <<store, idx, files>>

\* worker.js 118-134: the content is decoded, put and pushed to files
PutAccepted(u) ==
  LET entry == zip[u][idx[u]]
      fileEntry == FileEntry(entry.name, entry.content, siteId[u])
  IN  /\ store' = Put(store, fileEntry.path,
                      StoredObject(Bytes(entry.content), fileEntry.type))
      /\ files' = [files EXCEPT ![u] = Append(files[u], fileEntry)]
      /\ puts' = [puts EXCEPT ![u] = Append(puts[u], <<fileEntry.path, TRUE>>)]
      /\ idx' = [idx EXCEPT ![u] = idx[u] + 1]
      /\ UNCHANGED <<pc, status, err>>

\* one iteration of the loop of extractZip on a file entry
ExtractEntry(u) ==
  /\ pc[u] = "extract"
  /\ ~LoopDone(u)
  /\ idx[u] <= Len(zip[u])
  /\ ~IsDir(zip[u][idx[u]])
  /\ \/ DecodeRejected(u)
     \/ PutRejected(u)
     \/ PutAccepted(u)
  /\ UNCHANGED <<zip, form, siteId, siteName, siteConfig>>
  /\ ReaderWaits

\* worker.js 74-85: extractZip has returned; the entry point is resolved
\* and siteConfig assembled.  On an empty files, findEntryPoint throws.
Resolve(u) ==
  /\ pc[u] = "extract"
  /\ LoopDone(u)
  /\ \/ /\ findEntryPointThrows(files[u])
        /\ Finish(u, "failed", 500, "TypeError")
        /\ UNCHANGED siteConfig
     \/ /\ ~findEntryPointThrows(files[u])
        /\ \E now \in Times :
             siteConfig' = [siteConfig EXCEPT ![u] =
               SiteConfig(siteId[u], siteName[u], files[u], findEntryPoint(files[u]), now)]
        /\ pc' = [pc EXCEPT ![u] = "putconfig"]
        /\ UNCHANGED <<status, err>>
  /\ UNCHANGED <<store, zip, form, siteId, siteName, idx, files, puts>>
  /\ ReaderWaits

\* worker.js 88-105: the put of the manifest rejects
ConfigRejected(u) ==
  /\ Finish(u, "failed", 500, "StoreWriteError")
  /\ puts' = [puts EXCEPT ![u] = Append(puts[u], <<ConfigKey(siteId[u]), FALSE>>)]
  /\ UNCHANGED store

\* worker.js 88-101: the manifest is put and the success response returned
ConfigAccepted(u) ==
  /\ store' = Put(store, ConfigKey(siteId[u]),
                  StoredObject(JsonOf(siteConfig[u]), <<>>))
  /\ puts' = [puts EXCEPT ![u] = Append(puts[u], <<ConfigKey(siteId[u]), TRUE>>)]
  /\ Finish(u, "done", 200, "none")

PutConfig(u) ==
  /\ pc[u] = "putconfig"
  /\ \/ ConfigRejected(u)
     \/ ConfigAccepted(u)
  /\ UNCHANGED <<zip, form, siteId, siteName, idx, files, siteConfig>>
  /\ ReaderWaits

-----------------------------------------------------------------------------
(* serveHostedSite, worker.js 166-218 *)

\* a response of serveHostedSite; gets lists the reads it made, each
\* <<key, "hit" | "miss" | "fault">>
ServeResponse(code, body, contentType, r, gets) ==
  [handler |-> "serve", status |-> code, body |-> body, contentType |-> contentType,
   siteId |-> r.siteId, file |-> r.file, gets |-> gets, sites |-> <<>>]

\* worker.js 169-171
pathParts(pathname) == SelectSeq(split(pathname, "/"), IsNonEmpty)

SiteIdOf(pathname) ==
  IF Len(pathParts(pathname)) >= 2 THEN pathParts(pathname)[2] ELSE <<"u","n","d","e","f","i","n","e","d">>

requestedFileOf(pathname) ==
  LET rest == join(SubSeq(pathParts(pathname), 3, Len(pathParts(pathname))))
  IN  IF Len(rest) = 0 THEN <<"i","n","d","e","x",".","h","t","m","l">> ELSE rest

\* worker.js 35 and 169-174: what serveHostedSite makes of the pathnames
\* that are routed to it
Requests ==
  { [siteId |-> SiteIdOf(pathname), file |-> requestedFileOf(pathname),
     fileKey |-> r2Key(SiteIdOf(pathname), requestedFileOf(pathname))] :
      pathname \in {p \in Pathnames : startsWith(p, <<"/","s","/">>)} }

\* object.text(): the stored bytes as text
TextOf(object) == object.body.data

\* worker.js 178-195: the response for a key that was found
FoundResponse(r, object, gets) ==
  LET contentType == getMimeType(r.file)
  IN  IF includes(contentType, <<"h","t","m","l">>)
      THEN ServeResponse(200, Bytes(fixRelativePaths(TextOf(object), <<"/","s","/">> \o r.siteId \o <<"/">>)),
                         contentType, r, gets)
      ELSE \* writeHttpMetadata sets Content-Type to the stored one, if any
           ServeResponse(200, object.body,
                         IF Len(object.contentType) > 0 THEN object.contentType
                         ELSE contentType, r, gets)

\* worker.js 203-209: the response for the index.html found on fallback
IndexResponse(r, indexObject, gets) ==
  ServeResponse(200, Bytes(fixRelativePaths(TextOf(indexObject), <<"/","s","/">> \o r.siteId \o <<"/">>)),
                <<"t","e","x","t","/","h","t","m","l">>, r, gets)

NotFoundResponse(r, gets) ==
  ServeResponse(404, Bytes(<<"F","i","l","e"," ","n","o","t"," ","f","o","u","n","d">>), <<>>, r, gets)

\* worker.js 215-217: any exception, here a get that fails
ServeErrorResponse ==
  ServeResponse(500, Bytes(<<"E","r","r","o","r"," ","s","e","r","v","i","n","g"," ","s","i","t","e">>), <<>>, NoReq, <<>>)

\* a variant: index.html is tried after any miss
TriesIndexAlways(requestedFile) == TRUE

\* worker.js 199: on a miss, index.html is tried unless it was the request
TriesIndex(requestedFile) == requestedFile # <<"i","n","d","e","x",".","h","t","m","l">>

\* worker.js 169-196 and 213: the first get and what follows a hit, a
\* fault, or a miss when index.html itself was requested
ServeFirst ==
  /\ rpc = "idle"
  /\ \E r \in Requests, fault \in BOOLEAN :
       \/ /\ fault
          /\ resp' = ServeErrorResponse
          /\ UNCHANGED <<rpc, req>>
       \/ /\ ~fault
          /\ r.fileKey \in DOMAIN store
          /\ resp' = FoundResponse(r, store[r.fileKey], << <<r.fileKey, "hit">> >>)
          /\ UNCHANGED <<rpc, req>>
       \/ /\ ~fault
          /\ r.fileKey \notin DOMAIN store
          /\ TriesIndex(r.file)
          /\ rpc' = "index"
          /\ req' = r
          /\ resp' = NoResp
       \/ /\ ~fault
          /\ r.fileKey \notin DOMAIN store
          /\ ~TriesIndex(r.file)
          /\ resp' = NotFoundResponse(r, << <<r.fileKey, "miss">> >>)
          /\ UNCHANGED <<rpc, req>>
  /\ UNCHANGED <<store, uploadVars, rewriteVars, pending, sites>>

\* worker.js 200-213: the second get, at index.html
ServeIndex ==
  /\ rpc = "index"
  /\ LET indexKey == <<"s","i","t","e","s","/">> \o req.siteId \o <<"/","i","n","d","e","x",".","h","t","m","l">>
         first == <<req.fileKey, "miss">>
     IN  \E fault \in BOOLEAN :
           \/ /\ fault
              /\ resp' = ServeErrorResponse
           \/ /\ ~fault
              /\ indexKey \in DOMAIN store
              /\ resp' = IndexResponse(req, store[indexKey], <<first, <<indexKey, "hit">> >>)
           \/ /\ ~fault
              /\ indexKey \notin DOMAIN store
              /\ resp' = NotFoundResponse(req, <<first, <<indexKey, "miss">> >>)
  /\ rpc' = "idle"
  /\ req' = NoReq
  /\ UNCHANGED <<store, uploadVars, rewriteVars, pending, sites>>

-----------------------------------------------------------------------------
(* listSites, worker.js 250-264 *)

ListResponse(code, found) ==
  [handler |-> "list", status |-> code, body |-> Bytes(<<>>), contentType |-> <<"a","p","p","l","i","c","a","t","i","o","n","/","j","s","o","n">>,
   siteId |-> <<>>, file |-> <<>>, gets |-> <<>>, sites |-> found]

\* an exception leaves listSites (it has no try): the request fails
ListFailure == ListResponse(500, <<>>)

IsConfigKey(key) == endsWith(key, <<"c","o","n","f","i","g",".","j","s","o","n">>)

\* JSON.parse(await config.text()): the manifest text parses to the
\* manifest; of the member contents of MemberPool only {} is JSON
JsonParses(object) ==
  object.body.kind = "json" \/ object.body.data = <<"{","}">>

\* the parsed value, with the key it was read from
Parsed(key, object) == [key |-> key, value |-> object.body.cfg]

\* worker.js 251-255: the list of the keys under sites/, of which the loop
\* gets those that end with config.json
ListStart ==
  /\ rpc = "idle"
  /\ \/ /\ rpc' = "listing"
        /\ pending' = SelectSeq(SortKeys({k \in DOMAIN store : startsWith(k, <<"s","i","t","e","s","/">>)}),
                                IsConfigKey)
        /\ sites' = <<>>
        /\ resp' = NoResp
     \/ /\ resp' = ListFailure
        /\ UNCHANGED <<rpc, pending, sites>>
  /\ UNCHANGED <<store, uploadVars, rewriteVars, req>>

\* worker.js 256-259: one get of the loop
ListGet ==
  /\ rpc = "listing"
  /\ Len(pending) > 0
  /\ LET key == Head(pending)
     IN  \E fault \in BOOLEAN :
           \/ /\ fault \/ (key \in DOMAIN store /\ ~JsonParses(store[key]))
              /\ resp' = ListFailure
              /\ rpc' = "idle"
              /\ pending' = <<>>
              /\ sites' = <<>>
           \/ /\ ~fault
              /\ key \in DOMAIN store
              /\ JsonParses(store[key])
              /\ sites' = Append(sites, Parsed(key, store[key]))
              /\ pending' = Tail(pending)
              /\ resp' = NoResp
              /\ UNCHANGED rpc
           \/ /\ ~fault
              /\ key \notin DOMAIN store
              /\ pending' = Tail(pending)
              /\ resp' = NoResp
              /\ UNCHANGED <<rpc, sites>>
  /\ UNCHANGED <<store, uploadVars, rewriteVars, req>>

\* worker.js 263
ListRespond ==
  /\ rpc = "listing"
  /\ Len(pending) = 0
  /\ resp' = ListResponse(200, sites)
  /\ rpc' = "idle"
  /\ sites' = <<>>
  /\ UNCHANGED <<store, uploadVars, rewriteVars, req, pending>>

-----------------------------------------------------------------------------
(* fixRelativePaths applied to a document, and again to its own output *)

RewriteOnce ==
  /\ rwpc = "start"
  /\ out1' = fixRelativePaths(html, basePath)
  /\ rwpc' = "once"
  /\ UNCHANGED <<store, uploadVars, readerVars, doc, html, basePath, out2>>

RewriteAgain ==
  /\ rwpc = "once"
  /\ out2' = fixRelativePaths(out1, basePath)
  /\ rwpc' = "twice"
  /\ UNCHANGED <<store, uploadVars, readerVars, doc, html, basePath, out1>>

-----------------------------------------------------------------------------
(* Specifications *)

InitUploads(active, archives, names) ==
  /\ store = EmptyStore
  /\ zip \in [Uploads -> archives]
  /\ \A u \in Uploads \ active : zip[u] = CHOOSE z \in archives : TRUE
  /\ form \in [Uploads -> names]
  /\ \A u \in Uploads \ active : form[u] = CHOOSE n \in names : TRUE
  /\ pc = [u \in Uploads |-> IF u \in active THEN "start" ELSE "absent"]
  /\ siteId = [u \in Uploads |-> <<>>]
  /\ siteName = [u \in Uploads |-> <<>>]
  /\ idx = [u \in Uploads |-> 0]
  /\ files = [u \in Uploads |-> <<>>]
  /\ siteConfig = [u \in Uploads |-> NoConfig]
  /\ status = [u \in Uploads |-> 0]
  /\ err = [u \in Uploads |-> "none"]
  /\ puts = [u \in Uploads |-> <<>>]
  /\ rpc = "idle"
  /\ req = NoReq
  /\ pending = <<>>
  /\ sites = <<>>
  /\ resp = NoResp
  /\ doc = <<>>
  /\ html = <<>>
  /\ basePath = <<>>
  /\ out1 = <<>>
  /\ out2 = <<>>
  /\ rwpc = "off"

\* one upload, with serve and list requests running beside it
Init == InitUploads({1}, Archives, SiteNames)

Next ==
  \/ \E u \in Uploads : Validate(u)
  \/ \E u \in Uploads : LoadZip(u)
  \/ \E u \in Uploads : SkipDirectory(u)
  \/ \E u \in Uploads : ExtractEntry(u)
  \/ \E u \in Uploads : Resolve(u)
  \/ \E u \in Uploads : PutConfig(u)
  \/ ServeFirst
  \/ ServeIndex
  \/ ListStart
  \/ ListGet
  \/ ListRespond

Spec == Init /\ [][Next]_vars

\* two uploads whose steps interleave
InitTwo == InitUploads(Uploads, ArchivesTwo, {<<"m","y">>})

NextTwo ==
  \/ \E u \in Uploads : Validate(u)
  \/ \E u \in Uploads : LoadZip(u)
  \/ \E u \in Uploads : SkipDirectory(u)
  \/ \E u \in Uploads : ExtractEntry(u)
  \/ \E u \in Uploads : Resolve(u)
  \/ \E u \in Uploads : PutConfig(u)

SpecTwo == InitTwo /\ [][NextTwo]_vars

\* the rewriter alone, on every document of Docs
InitRewrite ==
  /\ store = EmptyStore
  /\ zip = [u \in Uploads |-> <<>>]
  /\ form = [u \in Uploads |-> <<>>]
  /\ pc = [u \in Uploads |-> "absent"]
  /\ siteId = [u \in Uploads |-> <<>>]
  /\ siteName = [u \in Uploads |-> <<>>]
  /\ idx = [u \in Uploads |-> 0]
  /\ files = [u \in Uploads |-> <<>>]
  /\ siteConfig = [u \in Uploads |-> NoConfig]
  /\ status = [u \in Uploads |-> 0]
  /\ err = [u \in Uploads |-> "none"]
  /\ puts = [u \in Uploads |-> <<>>]
  /\ rpc = "off"
  /\ req = NoReq
  /\ pending = <<>>
  /\ sites = <<>>
  /\ resp = NoResp
  /\ doc \in Docs
  /\ html = Render(doc)
  /\ basePath \in BasePaths
  /\ out1 = <<>>
  /\ out2 = <<>>
  /\ rwpc = "start"

NextRewrite == RewriteOnce \/ RewriteAgain

SpecRewrite == InitRewrite /\ [][NextRewrite]_vars


-----------------------------------------------------------------------------
(* What the properties below are stated with *)

IsFileMember(m) == ~m.dir

\* the non-directory members of an archive, in archive order
FileMembers(z) == SelectSeq(z, IsFileMember)

\* the store key of a member of site id, spelled out
KeyOf(id, name) == <<"s","i","t","e","s","/">> \o id \o <<"/">> \o name

ManifestKey(id) == <<"s","i","t","e","s","/">> \o id \o <<"/","c","o","n","f","i","g",".","j","s","o","n">>

\* one FileEntry per non-directory member
ExpectedEntries(z, id) ==
  [i \in 1..Len(FileMembers(z)) |->
     [name |-> FileMembers(z)[i].name,
      type |-> getMimeType(FileMembers(z)[i].name),
      size |-> Len(FileMembers(z)[i].content),
      path |-> KeyOf(id, FileMembers(z)[i].name)]]

\* the store that holds exactly the non-directory members of z, for site id
RECURSIVE MembersStore(_, _)
MembersStore(z, id) ==
  IF Len(z) = 0 THEN EmptyStore
  ELSE LET rest == MembersStore(SubSeq(z, 1, Len(z) - 1), id)
           m == z[Len(z)]
       IN  IF m.dir THEN rest
           ELSE Put(rest, KeyOf(id, m.name),
                    [body |-> Bytes(m.content), contentType |-> getMimeType(m.name)])

\* the entries the loop of extractZip has gone past
Processed(u) == SubSeq(zip[u], 1, IF idx[u] = 0 THEN 0 ELSE idx[u] - 1)

\* upload u has put its manifest
ManifestWritten(u) == pc[u] = "done"

\* the part of a store under a key prefix
Under(st, prefix) == [k \in {j \in DOMAIN st : startsWith(j, prefix)} |-> st[k]]

\* what upload u, run alone from the empty store up to where it is now,
\* leaves in the store
Alone(u) ==
  IF pc[u] = "done"
  THEN Put(MembersStore(zip[u], siteId[u]), ManifestKey(siteId[u]),
           [body |-> JsonOf(
              [id |-> siteId[u], name |-> siteName[u],
               files |-> ExpectedEntries(zip[u], siteId[u]),
               entryPoint |-> findEntryPoint(ExpectedEntries(zip[u], siteId[u])),
               createdAt |-> siteConfig[u].createdAt,
               url |-> Origin \o <<"/","s","/">> \o siteId[u],
               directUrl |-> Origin \o <<"/","s","/">> \o siteId[u] \o <<"/">>
                               \o findEntryPoint(ExpectedEntries(zip[u], siteId[u])),
               set |-> TRUE]),
            contentType |-> <<>>])
  ELSE MembersStore(Processed(u), siteId[u])

\* the attribute positions <<element, attribute>> of a document
AttrPositions(d) ==
  { p \in (1..Len(d)) \X (1..2) : p[2] <= Len(d[p[1]].attrs) }

\* the document d with base put before the attribute values at positions S
PrefixAt(d, S, base) ==
  [e \in 1..Len(d) |->
     [d[e] EXCEPT !.attrs =
        [a \in 1..Len(d[e].attrs) |->
           IF <<e, a>> \in S
           THEN [d[e].attrs[a] EXCEPT !.value = base \o d[e].attrs[a].value]
           ELSE d[e].attrs[a]]]]

\* the attribute the rewriter is to prefix in a tag, <<>> for other tags
UrlAttribute(tag) ==
  IF tag \in { <<"l","i","n","k">>, <<"a">> } THEN <<"h","r","e","f">>
  ELSE IF tag \in { <<"s","c","r","i","p","t">>, <<"i","m","g">> } THEN <<"s","r","c">>
  ELSE <<>>

\* the positions of the values to prefix: link href, script src, img src and
\* a href, but absolute URLs and, in a href, fragments
Relative(d) ==
  { p \in AttrPositions(d) :
      LET el == d[p[1]]
          at == el.attrs[p[2]]
      IN  /\ Len(el.tag) > 0
          /\ at.name = UrlAttribute(el.tag)
          /\ ~startsWith(at.value, <<"h","t","t","p",":","/","/">>)
          /\ ~startsWith(at.value, <<"h","t","t","p","s",":","/","/">>)
          /\ ~(el.tag = <<"a">> /\ startsWith(at.value, <<"#">>)) }

-----------------------------------------------------------------------------
(* Properties *)

\* C1: after a successful upload, a get of the store at the path of every
\* entry of files returns an object whose byte length is the entry's size,
\* also for an archive with a member config.json.
C1_RoundTrip ==
  \A u \in Uploads :
    pc[u] = "done" =>
      \A i \in 1..Len(files[u]) :
        /\ files[u][i].path \in DOMAIN store
        /\ ByteLength(store[files[u][i].path].body) = files[u][i].size

\* C2: a serve request returns stored content of a site, and a list request
\* returns an entry read under sites/<id>/, only if the upload of that site
\* has written its manifest.
C2_ValidOnlyAfterManifest ==
  /\ (resp.handler = "serve" /\ resp.status = 200) =>
       \E u \in Uploads : siteId[u] = resp.siteId /\ ManifestWritten(u)
  /\ (resp.handler = "list" /\ resp.status = 200) =>
       \A i \in 1..Len(resp.sites) :
         \E u \in Uploads :
           /\ startsWith(resp.sites[i].key, <<"s","i","t","e","s","/">> \o siteId[u] \o <<"/">>)
           /\ ManifestWritten(u)

\* C3: the entry point that handleZipUpload resolves is exactly the name of
\* some element of files.
C3_EntryPointIsStoredName ==
  \A u \in Uploads :
    siteConfig[u].set =>
      \E i \in 1..Len(files[u]) : files[u][i].name = siteConfig[u].entryPoint

\* C4: when the first get misses and the requested file is not index.html, a
\* second get is made at sites/<id>/index.html; a hit returns that object's
\* text rewritten with /s/<id>/ as text/html, a miss returns 404; when the
\* requested file is index.html the miss returns 404 and no second get is made.
C4_IndexFallback ==
  /\ rpc = "index" => req.file # <<"i","n","d","e","x",".","h","t","m","l">>
  /\ (resp.handler = "serve" /\ Len(resp.gets) > 0 /\ resp.gets[1][2] = "miss") =>
       IF resp.file = <<"i","n","d","e","x",".","h","t","m","l">>
       THEN resp.status = 404 /\ Len(resp.gets) = 1
       ELSE /\ Len(resp.gets) = 2
            /\ resp.gets[2][1] = KeyOf(resp.siteId, <<"i","n","d","e","x",".","h","t","m","l">>)
            /\ resp.gets[2][2] = "miss" => resp.status = 404
            /\ resp.gets[2][2] = "hit" =>
                 /\ resp.status = 200
                 /\ resp.contentType = <<"t","e","x","t","/","h","t","m","l">>
                 /\ KeyOf(resp.siteId, <<"i","n","d","e","x",".","h","t","m","l">>) \in DOMAIN store
                 /\ resp.body = Bytes(fixRelativePaths(
                                  store[KeyOf(resp.siteId, <<"i","n","d","e","x",".","h","t","m","l">>)].body.data,
                                  <<"/","s","/">> \o resp.siteId \o <<"/">>))

C4_Witness ==
  /\ resp.handler = "serve"
  /\ resp.status = 200
  /\ Len(resp.gets) = 2
  /\ resp.gets[2][2] = "hit"
  /\ resp.body # store[resp.gets[2][1]].body

\* C5: when extractZip returns, files holds one entry per non-directory
\* member, in order, none for a directory, each with its path, type and
\* size, and the store holds the member's content at that path.
C5_OneEntryPerFile ==
  \A u \in Uploads :
    ((pc[u] = "extract" /\ idx[u] > Len(zip[u])) \/ pc[u] = "putconfig") =>
      /\ files[u] = ExpectedEntries(zip[u], siteId[u])
      /\ \A i \in 1..Len(zip[u]) :
           ~zip[u][i].dir =>
             /\ KeyOf(siteId[u], zip[u][i].name) \in DOMAIN store
             /\ store[KeyOf(siteId[u], zip[u][i].name)] =
                  [body |-> Bytes(zip[u][i].content),
                   contentType |-> getMimeType(zip[u][i].name)]

C5_Witness ==
  \E u \in Uploads :
    /\ pc[u] = "putconfig"
    /\ \E i \in 1..Len(zip[u]) : zip[u][i].dir
    /\ Len(files[u]) = 1

\* C6: a rejected put is the last put of its upload, which then has failed
\* with status 500; when it is rejected in extractZip, the puts before it
\* are those of the earlier file members, all accepted, the manifest is not
\* put, and the store still holds exactly the earlier members.
C6_RejectedPutAborts ==
  \A u \in Uploads :
    /\ \A i \in 1..Len(puts[u]) :
         ~puts[u][i][2] =>
           i = Len(puts[u]) /\ pc[u] = "failed" /\ status[u] = 500
    /\ (pc[u] = "failed" /\ err[u] = "StoreWriteError" /\ idx[u] <= Len(zip[u])) =>
         LET earlier == FileMembers(Processed(u))
         IN  /\ Len(puts[u]) = Len(earlier) + 1
             /\ \A i \in 1..Len(earlier) :
                  puts[u][i] = <<KeyOf(siteId[u], earlier[i].name), TRUE>>
             /\ puts[u][Len(puts[u])] = <<KeyOf(siteId[u], zip[u][idx[u]].name), FALSE>>
             /\ store = MembersStore(Processed(u), siteId[u])

C6_Witness ==
  \E u \in Uploads :
    /\ pc[u] = "failed"
    /\ err[u] = "StoreWriteError"
    /\ idx[u] = 2
    /\ Len(puts[u]) = 2
    /\ DOMAIN store = { puts[u][1][1] }

\* C7: of two uploads with different site ids, each puts only keys under
\* its own sites/<id>/, and at every point the store under that prefix is
\* what the upload alone would have left there.
C7_UploadsDoNotInterfere ==
  \A u, v \in Uploads :
    (Len(siteId[u]) > 0 /\ Len(siteId[v]) > 0 /\ siteId[u] # siteId[v]) =>
      /\ \A i \in 1..Len(puts[u]) :
           startsWith(puts[u][i][1], <<"s","i","t","e","s","/">> \o siteId[u] \o <<"/">>)
      /\ Under(store, <<"s","i","t","e","s","/">> \o siteId[u] \o <<"/">>) = Alone(u)

C7_Witness ==
  /\ siteId[1] # siteId[2]
  /\ pc[1] = "putconfig"
  /\ pc[2] = "putconfig"
  /\ Len(files[1]) = 2
  /\ Len(files[2]) = 2

\* C8: fixRelativePaths puts basePath before the value of every link href,
\* script src, img src and a href that is not an absolute URL (nor, in a
\* href, a fragment), and changes nothing else.
C8_PrefixesEveryReference ==
  rwpc \in {"once", "twice"} =>
    out1 = Render(PrefixAt(doc, Relative(doc), basePath))

\* C9, as stated: on the second run, with the same basePath, a matched value
\* that already starts with basePath is left unchanged (the others are
\* prefixed again).
C9_PrefixedValuesLeftAlone ==
  rwpc = "twice" =>
    \E S \in SUBSET AttrPositions(doc) :
      LET d1 == PrefixAt(doc, S, basePath)
      IN  /\ out1 = Render(d1)
          /\ out2 = Render(PrefixAt(d1,
                   {p \in S : ~startsWith(d1[p[1]].attrs[p[2]].value, basePath)},
                   basePath))

\* C9, amended: on the second run, with the same basePath /s/<id>/, every
\* value the first run prefixed is prefixed again, although it starts with
\* basePath, and nothing else changes.
C9_SecondRunPrefixesAgain ==
  rwpc = "twice" =>
    \E S \in SUBSET AttrPositions(doc) :
      /\ out1 = Render(PrefixAt(doc, S, basePath))
      /\ out2 = Render(PrefixAt(PrefixAt(doc, S, basePath), S, basePath))

C9_Witness ==
  /\ rwpc = "twice"
  /\ out2 # out1
  /\ includes(out1, <<"=","\"">> \o basePath)
  /\ includes(out2, <<"=","\"">> \o basePath \o basePath)

\* C10: in a successful upload the put of the manifest, which carries the
\* resolved entry point, is the last put: the puts before it are those of
\* all the non-directory members, and none follows.
C10_ManifestIsLastWrite ==
  \A u \in Uploads :
    pc[u] = "done" =>
      LET members == FileMembers(zip[u])
          n == Len(puts[u])
      IN  /\ n = Len(members) + 1
          /\ \A i \in 1..Len(members) :
               puts[u][i] = <<KeyOf(siteId[u], members[i].name), TRUE>>
          /\ puts[u][n] = <<ManifestKey(siteId[u]), TRUE>>
          /\ store[ManifestKey(siteId[u])].body.kind = "json"
          /\ store[ManifestKey(siteId[u])].body.cfg.entryPoint = findEntryPoint(files[u])

C10_Witness ==
  \E u \in Uploads :
    /\ pc[u] = "done"
    /\ Len(puts[u]) = 3

=============================================================================
